---- MODULE Spec2Model ----
(***************************************************************************)
(* Model of include/assimp/metadata.h: the aiType registry (GetAiType),    *)
(* the dispatch function transform, and the aiMetadata store with its      *)
(* constructor, destructor, Set, Get(index) and Get(key).                  *)
(*                                                                         *)
(* Values are pairs (C++ type, payload).  The heap is the sequence of all  *)
(* objects ever created by `new T(value)`; an address is an index into it  *)
(* and `live` says whether the object has been released.                   *)
(***************************************************************************)
EXTENDS Integers, Sequences, FiniteSets, TLC

\* ------------------------------------------------------------------ bounds
MaxProps == 2        \* largest property count a store is sized to
MaxAllocs == 2       \* number of `new T(value)` executions explored

\* ------------------------------------------------------- program constants
AI_BOOL == 0
AI_INT == 1
AI_UINT64 == 2
AI_FLOAT == 3
AI_AISTRING == 4
AI_AIVECTOR3D == 5
FORCE_32BIT == 2147483647
NULL == 0

\* The C++ types that have a GetAiType overload.
CTypes == {"bool", "int", "uint64_t", "float", "aiString", "aiVector3D"}

\* Two representative payloads of every type.
Payloads == {0, 1}

\* Keys passed to Set; a default-constructed aiString is the empty key.
Keys == {"a", "b"}
EmptyKey == ""
LookupKeys == Keys \cup {EmptyKey}

\* The values an aiType object can hold that the model distinguishes: the six
\* enumerators and one value that no case label of transform names.
KindValues == {AI_BOOL, AI_INT, AI_UINT64, AI_FLOAT, AI_AISTRING, AI_AIVECTOR3D}
AnyKindValues == KindValues \cup {FORCE_32BIT}

\* GetAiType: one overload per type.
GetAiType(T) ==
    CASE T = "bool"       -> AI_BOOL
      [] T = "int"        -> AI_INT
      [] T = "uint64_t"   -> AI_UINT64
      [] T = "float"      -> AI_FLOAT
      [] T = "aiString"   -> AI_AISTRING
      [] T = "aiVector3D" -> AI_AIVECTOR3D

VARIABLES
    mNumProperties,  \* aiMetadata::mNumProperties
    mKeys,           \* aiMetadata::mKeys, the pointer: NULL or the key array
    mValues,         \* aiMetadata::mValues, the pointer: NULL or the entry array
    keys,            \* the key array's elements, index -> key
    entries,         \* the entry array's elements, index -> aiMetaDataEntry
    heap,            \* every object made by `new T(value)`, by address
    written,         \* history: index -> the value last passed to Set, or NoValue
    status,          \* "alive", "destroyed", "aborted" (assert) or "ub"
    dispatchLog,     \* history: the transform calls the destructor made
    arrayDeletes,    \* history: the arrays the destructor passed to delete []
    last             \* history: the last call, its arguments and its results

vars == <<mNumProperties, mKeys, mValues, keys, entries, heap, written, status,
          dispatchLog, arrayDeletes, last>>

store == <<mNumProperties, mKeys, mValues, keys, entries, heap>>

KeysArray == 1
ValuesArray == 1

NoValue == [ctype |-> "none", val |-> 0]

\* An element of a `new aiMetaDataEntry[n]` array before any Set: both fields
\* hold indeterminate values.
UnsetEntry == [type |-> AI_BOOL, data |-> NULL, indet |-> TRUE]

Indices == 0 .. (mNumProperties - 1)

Call(op, index, key, T, before, after, result, accessed) ==
    [op |-> op, index |-> index, key |-> key, ctype |-> T, before |-> before,
     after |-> after, result |-> result, accessed |-> accessed]

\* ----------------------------------------------------------- constructor
Constructor == [mNumProperties |-> 0, mKeys |-> NULL, mValues |-> NULL]

Init ==
    /\ mNumProperties = Constructor.mNumProperties
    /\ mKeys = Constructor.mKeys
    /\ mValues = Constructor.mValues
    /\ keys = << >>
    /\ entries = << >>
    /\ heap = << >>
    /\ written = << >>
    /\ status = "alive"
    /\ dispatchLog = << >>
    /\ arrayDeletes = {}
    /\ last = Call("new", 0, EmptyKey, "none", 0, 0, FALSE, FALSE)

\* The owner sizes the store once: it sets the count and allocates both arrays.
Resize ==
    /\ status = "alive"
    /\ mKeys = NULL /\ mValues = NULL
    /\ \E n \in 0 .. MaxProps :
        /\ mNumProperties' = n
        /\ keys' = [i \in 0 .. (n - 1) |-> EmptyKey]
        /\ entries' = [i \in 0 .. (n - 1) |-> UnsetEntry]
        /\ written' = [i \in 0 .. (n - 1) |-> NoValue]
        /\ last' = Call("Resize", n, EmptyKey, "none", 0, 0, FALSE, FALSE)
    /\ mKeys' = KeysArray
    /\ mValues' = ValuesArray
    /\ UNCHANGED <<heap, status, dispatchLog, arrayDeletes>>

\* ------------------------------------------------------------------- Set
\* Set without its line `mValues[index].type = GetAiType(value)`.
SetEntry_NoTag(ents, index, T, addr) ==
    [ents EXCEPT ![index] = [type |-> ents[index].type, data |-> addr,
                             indet |-> FALSE]]

\* mValues[index].type = GetAiType(value); mValues[index].data = new T(value);
SetEntry(ents, index, T, addr) ==
    [ents EXCEPT ![index] = [type |-> GetAiType(T), data |-> addr, indet |-> FALSE]]

\* Set allocating `new T()` in place of `new T(value)`.
SetHeap_NoCopy(h, ents, index, T, val) ==
    Append(h, [ctype |-> T, val |-> 0, live |-> TRUE])

\* new T(value): a fresh object holding a copy of value.  Nothing is released.
SetHeap(h, ents, index, T, val) ==
    Append(h, [ctype |-> T, val |-> val, live |-> TRUE])

\* Set writing the key to mKeys[0] in place of mKeys[index].
SetKey_First(ks, index, key) == [ks EXCEPT ![0] = key]

\* mKeys[index] = key;
SetKey(ks, index, key) == [ks EXCEPT ![index] = key]

Set ==
    /\ status = "alive"
    /\ Len(heap) < MaxAllocs
    /\ \E index \in 0 .. MaxProps, key \in Keys, T \in CTypes, val \in Payloads :
        IF index < mNumProperties
        THEN /\ keys' = SetKey(keys, index, key)
             /\ entries' = SetEntry(entries, index, T, Len(heap) + 1)
             /\ heap' = SetHeap(heap, entries, index, T, val)
             /\ written' = [written EXCEPT ![index] = [ctype |-> T, val |-> val]]
             /\ status' = "alive"
             /\ last' = Call("Set", index, key, T, val, val, TRUE, TRUE)
        ELSE \* assert(index < mNumProperties) fails; without the assertion
             \* (NDEBUG) the writes go past the arrays.
             /\ \E checked \in BOOLEAN :
                 /\ status' = IF checked THEN "aborted" ELSE "ub"
                 /\ last' = Call("Set", index, key, T, val, val, FALSE, ~checked)
             /\ UNCHANGED <<keys, entries, heap, written>>
    /\ UNCHANGED <<mNumProperties, mKeys, mValues, dispatchLog, arrayDeletes>>

\* ------------------------------------------------------------ Get(index)
Outcome(result, after, ub) == [result |-> result, after |-> after, ub |-> ub]

\* What a read of an indeterminate, out-of-bounds or mistyped object can give.
Undefined(before) ==
    {Outcome(FALSE, before, TRUE)} \cup {Outcome(TRUE, p, TRUE) : p \in Payloads}

\* Get(index, value) without the comparison of the two types.
GetIndex_NoTypeCheck(index, T, before) ==
    IF mValues = NULL \/ ~(index < mNumProperties) THEN Undefined(before)
    ELSE LET e == entries[index] IN
         IF e.indet THEN Undefined(before)
         ELSE IF heap[e.data].ctype = T /\ heap[e.data].live
              THEN {Outcome(TRUE, heap[e.data].val, FALSE)}
              ELSE Undefined(before)

\* The outcomes of Get(index, value) with value of type T holding `before`.
GetIndex(index, T, before) ==
    IF mValues = NULL \/ ~(index < mNumProperties) THEN Undefined(before)
    ELSE LET e == entries[index] IN
         IF e.indet THEN Undefined(before)
         ELSE IF GetAiType(T) # e.type THEN {Outcome(FALSE, before, FALSE)}
         ELSE IF heap[e.data].ctype = T /\ heap[e.data].live
              THEN {Outcome(TRUE, heap[e.data].val, FALSE)}
              ELSE Undefined(before)

Get ==
    /\ status = "alive"
    /\ \E index \in 0 .. MaxProps, T \in CTypes, before \in Payloads :
        \E o \in GetIndex(index, T, before) :
            /\ status' = IF o.ub THEN "ub" ELSE "alive"
            /\ last' = Call("Get", index, EmptyKey, T, before, o.after, o.result, TRUE)
    /\ UNCHANGED <<store, written, dispatchLog, arrayDeletes>>

\* -------------------------------------------------------------- Get(key)
\* Get(key, value) going on to later slots when Get(i, value) fails.
RECURSIVE Scan_SkipMismatch(_, _, _, _)
Scan_SkipMismatch(i, key, T, before) ==
    IF ~(i < mNumProperties) THEN {Outcome(FALSE, before, FALSE)}
    ELSE IF keys[i] = key /\ \E o \in GetIndex(i, T, before) : o.result
         THEN GetIndex(i, T, before)
         ELSE Scan_SkipMismatch(i + 1, key, T, before)

RECURSIVE Scan(_, _, _, _)
Scan(i, key, T, before) ==
    IF ~(i < mNumProperties) THEN {Outcome(FALSE, before, FALSE)}
    ELSE IF keys[i] = key THEN GetIndex(i, T, before)
    ELSE Scan(i + 1, key, T, before)

GetKey ==
    /\ status = "alive"
    /\ \E key \in LookupKeys, T \in CTypes, before \in Payloads :
        \E o \in Scan(0, key, T, before) :
            /\ status' = IF o.ub THEN "ub" ELSE "alive"
            /\ last' = Call("GetKey", 0, key, T, before, o.after, o.result, TRUE)
    /\ UNCHANGED <<store, written, dispatchLog, arrayDeletes>>

\* ------------------------------------------------------------- transform
\* The switch of transform(type, data, c).  Every case label evaluates
\* `callable(static_cast<X*>(data))`: callable is the template's TYPE parameter,
\* so the expression converts the re-typed pointer to that type and discards the
\* result; the function object c is never called.  `cast` is the X of the case
\* taken, `invoked` the calls of c made, `asserted` whether assert(false) ran.
Dispatch(cast, invoked, asserted) ==
    [cast |-> cast, invoked |-> invoked, asserted |-> asserted]

Transform(type, data) ==
    CASE type = AI_BOOL       -> Dispatch("bool", << >>, FALSE)
      [] type = AI_INT        -> Dispatch("int", << >>, FALSE)
      [] type = AI_UINT64     -> Dispatch("uint64_t", << >>, FALSE)
      [] type = AI_FLOAT      -> Dispatch("float", << >>, FALSE)
      [] type = AI_AISTRING   -> Dispatch("aiString", << >>, FALSE)
      [] type = AI_AIVECTOR3D -> Dispatch("aiVector3D", << >>, FALSE)
      [] OTHER                -> Dispatch("none", << >>, TRUE)

\* ------------------------------------------------------------ destructor
\* for (unsigned i=0; i<mNumProperties; ++i) transform(mValues[i], operator delete);
\* readType gives what reading an indeterminate type field yields; checked says
\* whether assert is compiled in.  The loop stops where an assertion aborts.
RECURSIVE DestroyEntries(_, _, _, _)
DestroyEntries(i, readType, checked, log) ==
    IF ~(i < mNumProperties) THEN [log |-> log, aborted |-> FALSE]
    ELSE LET e == entries[i]
             t == IF e.indet THEN readType[i] ELSE e.type
             r == Transform(t, e.data)
             log2 == Append(log, [index |-> i, type |-> t, data |-> e.data,
                                  cast |-> r.cast, invoked |-> r.invoked,
                                  asserted |-> r.asserted])
         IN  IF r.asserted /\ checked THEN [log |-> log2, aborted |-> TRUE]
             ELSE DestroyEntries(i + 1, readType, checked, log2)

\* ~aiMetadata() without its `if (mKeys)` and `if (mValues)` tests.
Destructor_NoNullCheck(readType, checked) ==
    LET r == DestroyEntries(0, readType, checked, << >>)
        v == IF ~r.aborted THEN {"mValues"} ELSE {}
    IN  [log |-> r.log, aborted |-> r.aborted, deletes |-> {"mKeys"} \cup v]

\* ~aiMetadata(): the calls made, whether an assertion aborted, the arrays
\* passed to delete [].
Destructor(readType, checked) ==
    LET k == IF mKeys # NULL THEN {"mKeys"} ELSE {}
        r == IF mValues # NULL THEN DestroyEntries(0, readType, checked, << >>)
             ELSE [log |-> << >>, aborted |-> FALSE]
        v == IF mValues # NULL /\ ~r.aborted THEN {"mValues"} ELSE {}
    IN  [log |-> r.log, aborted |-> r.aborted, deletes |-> k \cup v]

\* The addresses the destructor's calls handed to the operation, in order.
RECURSIVE Released(_)
Released(log) ==
    IF log = << >> THEN << >> ELSE Head(log).invoked \o Released(Tail(log))

\* operator delete on each released address.
RECURSIVE Release(_, _)
Release(h, ptrs) ==
    IF ptrs = << >> THEN h
    ELSE Release([h EXCEPT ![Head(ptrs)].live = FALSE], Tail(ptrs))

ValidRelease(h, ptrs) ==
    /\ \A k \in 1 .. Len(ptrs) : ptrs[k] \in 1 .. Len(h) /\ h[ptrs[k]].live
    /\ \A k, l \in 1 .. Len(ptrs) : k # l => ptrs[k] # ptrs[l]

Destroy ==
    /\ status = "alive"
    /\ \E checked \in BOOLEAN :
       \E readType \in [{i \in Indices : entries[i].indet} -> AnyKindValues] :
         LET d == Destructor(readType, checked)
             ptrs == Released(d.log)
         IN  /\ dispatchLog' = d.log
             /\ arrayDeletes' = d.deletes
             /\ IF ValidRelease(heap, ptrs)
                THEN /\ heap' = Release(heap, ptrs)
                     /\ status' = IF d.aborted THEN "aborted" ELSE "destroyed"
                ELSE /\ heap' = heap
                     /\ status' = "ub"
    /\ last' = Call("Destroy", 0, EmptyKey, "none", 0, 0, FALSE, FALSE)
    /\ UNCHANGED <<mNumProperties, mKeys, mValues, keys, entries, written>>

Next == Resize \/ Get \/ GetKey \/ Set \/ Destroy

Spec == Init /\ [][Next]_vars

\* ================================================================ claims
Occupied == {i \in Indices : written[i] # NoValue}
LiveObjects == {a \in 1 .. Len(heap) : heap[a].live}
InRangeGet == last.op = "Get" /\ last.index < mNumProperties

\* C1: round trip.  A Get(i, out) on an in-range slot whose last Set stored a
\* value v of out's type returns success, leaves out equal to v and is defined.
C1_RoundTrip ==
    (InRangeGet /\ written[last.index].ctype = last.ctype)
        => /\ last.result
           /\ last.after = written[last.index].val
           /\ status = "alive"

C1_Witness ==
    /\ InRangeGet
    /\ written[last.index].ctype = last.ctype
    /\ last.result
    /\ last.after # last.before

\* C2: type-mismatch safety.  A Get(i, out) on a slot whose last Set stored a
\* value of another type than out's returns failure, leaves out at the value it
\* had before the call, and the entry still carries its own tag and value.
C2_TypeMismatch ==
    (InRangeGet /\ written[last.index] # NoValue
                /\ written[last.index].ctype # last.ctype)
        => /\ ~last.result
           /\ last.after = last.before
           /\ status = "alive"
           /\ entries[last.index].type = GetAiType(written[last.index].ctype)
           /\ heap[entries[last.index].data].val = written[last.index].val

C2_Witness ==
    /\ InRangeGet
    /\ written[last.index] # NoValue
    /\ written[last.index].ctype # last.ctype
    /\ ~last.result
    /\ last.before # written[last.index].val

Matches(key) == {j \in Indices : keys[j] = key}
FirstMatch(key) == CHOOSE j \in Matches(key) : \A k \in Matches(key) : j <= k

\* C3: first-match lookup.  Get(key, out) gives exactly an outcome of Get(j, out)
\* for the smallest j whose key equals key, whatever later slots hold; with no
\* equal key it returns failure and leaves out unmodified.
C3_FirstMatch ==
    (last.op = "GetKey")
        => IF Matches(last.key) = {}
           THEN ~last.result /\ last.after = last.before /\ status = "alive"
           ELSE Outcome(last.result, last.after, status = "ub")
                    \in GetIndex(FirstMatch(last.key), last.ctype, last.before)

\* Two slots share the key, the first holds another type than out, the second
\* holds out's type, and the lookup failed.
C3_Witness ==
    /\ last.op = "GetKey"
    /\ mNumProperties = 2
    /\ keys[0] = last.key /\ keys[1] = last.key
    /\ written[0] # NoValue /\ written[0].ctype # last.ctype
    /\ written[1].ctype = last.ctype
    /\ ~last.result
    /\ status = "alive"

\* C4: re-set releases the prior value: while the store is alive the number of
\* live value objects equals the number of occupied slots.
C4_NoLeak ==
    (status = "alive") => Cardinality(LiveObjects) = Cardinality(Occupied)

\* C5: out-of-range indices.  A Set or Get(index) whose index is not below the
\* property count ends in the assertion and touches no key or entry.
C5_OutOfRangeAsserts ==
    (last.op \in {"Set", "Get"} /\ ~(last.index < mNumProperties))
        => status = "aborted" /\ ~last.accessed

\* C6: destruction releases each owned value exactly once: after the
\* destructor every occupied slot was dispatched and its dispatch invoked the
\* release exactly once on the slot's value; a slot never Set had no release.
C6_ReleasedOnce ==
    (status = "destroyed")
        => /\ \A i \in Occupied : \E k \in 1 .. Len(dispatchLog) :
                  dispatchLog[k].index = i
           /\ \A k \in 1 .. Len(dispatchLog) :
                  dispatchLog[k].invoked =
                      IF dispatchLog[k].index \in Occupied
                      THEN <<entries[dispatchLog[k].index].data>> ELSE << >>

\* C7: exhaustive dispatch.  Every dispatch on one of the six kinds invoked the
\* operation exactly once, on the handle, re-typed to the type GetAiType maps to
\* that kind; a dispatch on any other kind asserted and invoked nothing.
C7_Dispatch ==
    \A k \in 1 .. Len(dispatchLog) :
        LET r == dispatchLog[k] IN
        IF r.type \in KindValues
        THEN /\ ~r.asserted
             /\ GetAiType(r.cast) = r.type
             /\ r.invoked = <<r.data>>
        ELSE r.asserted /\ r.invoked = << >>

\* C8: empty-store destruction.  Destroying a store that still has the
\* constructor's fields (no properties, no key array, no value array) dispatches
\* nothing, releases nothing, deletes nothing and ends normally.
C8_EmptyDestroy ==
    (last.op = "Destroy" /\ mKeys = NULL /\ mValues = NULL /\ mNumProperties = 0)
        => /\ dispatchLog = << >>
           /\ arrayDeletes = {}
           /\ heap = << >>
           /\ status = "destroyed"

C8_Witness ==
    /\ last.op = "Destroy"
    /\ mKeys = NULL /\ mValues = NULL /\ mNumProperties = 0
    /\ status = "destroyed"

\* C9: tag/payload agreement.  Until the store is destroyed, the tag of every
\* slot that was Set is the kind of the live object its handle points to.
C9_TagPayload ==
    (status # "destroyed")
        => \A i \in Occupied :
              /\ ~entries[i].indet
              /\ entries[i].data \in LiveObjects
              /\ entries[i].type = GetAiType(heap[entries[i].data].ctype)
              /\ heap[entries[i].data].ctype = written[i].ctype

\* A slot set twice, the second time with a value of another type.
C9_Witness ==
    /\ last.op = "Set" /\ last.index < mNumProperties
    /\ Len(heap) = 2
    /\ heap[1].ctype # heap[2].ctype
    /\ Cardinality(Occupied) = 1
    /\ entries[last.index].data = 2

\* C10: frame.  An in-range Set changes neither the count, nor the array
\* pointers, nor the key, tag, handle or value of any other index; Get(index)
\* and Get(key) change nothing of the store.
C10_Frame ==
    [][ /\ (last'.op = "Set" /\ last'.index < mNumProperties)
            => /\ mNumProperties' = mNumProperties
               /\ mKeys' = mKeys /\ mValues' = mValues
               /\ DOMAIN keys' = DOMAIN keys
               /\ DOMAIN entries' = DOMAIN entries
               /\ \A j \in Indices : j # last'.index =>
                      /\ keys'[j] = keys[j]
                      /\ entries'[j] = entries[j]
                      /\ ~entries[j].indet =>
                             heap'[entries[j].data] = heap[entries[j].data]
        /\ (last'.op \in {"Get", "GetKey"}) => store' = store
      ]_vars

\* A Set into one slot of a store whose other slot already holds a value.
C10_Witness ==
    /\ last.op = "Set" /\ last.index < mNumProperties
    /\ mNumProperties = 2
    /\ Occupied = {0, 1}
    /\ entries[last.index].data = 2
====
